---- MODULE Spec2Model ----
(***************************************************************************)
(* A model of satfetch (src/satfetch.go): the batch cycle                  *)
(* FetchTLEsForSATCAT (claim the output files of a window of catalog rows, *)
(* post one bulk query, split the response into the claimed files), the    *)
(* event loop of main that repeats it on timer ticks until an interrupt,   *)
(* and the timer goroutine ClockyWocky.                                    *)
(*                                                                         *)
(* A Go string is a sequence of one-character strings.  A file of the      *)
(* output directory is the sequence of the chunks appended to it (the      *)
(* files are opened O_APPEND and written with WriteString only).           *)
(***************************************************************************)
EXTENDS Integers, Sequences, FiniteSets, TLC

\* ---------------------------------------------------------------- bounds
MaxCat == 3        \* longest catalog
MaxBatch == 2      \* largest -batch-size
MaxSlack == 1      \* spare capacity of the satcatRows slice beyond its length
MaxLines == 2      \* record lines of one response
MaxCycles == 5     \* cycles begun in one run

\* --------------------------------------------------------------- strings
Digits == <<"0", "1", "2", "3", "4", "5", "6", "7", "8", "9">>

\* the NORADID of the i-th catalog row: "100", "200", "300", ...
NoradID(i) == <<Digits[i + 1], "0", "0">>

S100 == NoradID(1)
S200 == NoradID(2)
S300 == NoradID(3)
\* the NORADID of the zero SatcatRow
SEmpty == <<>>
\* another spelling of the number 100 in the NORAD_CAT_ID column
S0100 == <<"0">> \o S100

\* response lines: the line number, a blank, the five-character identifier
\* field (zero-padded or blank-padded)
L1of100 == <<"1", " ", "0", "0", "1", "0", "0">>
L2of100 == <<"2", " ", "0", "0", "1", "0", "0">>
L1of200 == <<"1", " ", " ", " ", "2", "0", "0">>
\* a line whose identifier field is no number
LBadField == <<"1", " ", "0", "0", "X", "0", "0">>

\* the lines of a payload; none is shorter than the seven characters that
\* lines[i][2:7] needs
RespLines == {L1of100, L2of100, L1of200, LBadField}

IsDigit(c) == \E i \in 1..10 : Digits[i] = c

DigitVal(c) == (CHOOSE i \in 1..10 : Digits[i] = c) - 1

RECURSIVE DecVal(_)
DecVal(s) == IF s = <<>> THEN 0
             ELSE 10 * DecVal(SubSeq(s, 1, Len(s) - 1)) + DigitVal(s[Len(s)])

\* strconv.Atoi: an optional sign, then decimal digits only
Atoi(s) ==
    LET signed == s # <<>> /\ s[1] \in {"+", "-"}
        body == IF signed THEN Tail(s) ELSE s
    IN  IF body = <<>> \/ \E i \in 1..Len(body) : ~IsDigit(body[i])
        THEN [val |-> 0, err |-> TRUE]
        ELSE [val |-> IF signed /\ s[1] = "-" THEN 0 - DecVal(body) ELSE DecVal(body),
              err |-> FALSE]

RECURSIVE TrimLeft(_, _)
TrimLeft(s, c) == IF s # <<>> /\ s[1] = c THEN TrimLeft(Tail(s), c) ELSE s

RECURSIVE TrimRight(_, _)
TrimRight(s, c) == IF s # <<>> /\ s[Len(s)] = c
                   THEN TrimRight(SubSeq(s, 1, Len(s) - 1), c) ELSE s

\* strings.Trim(s, c) for a one-character cutset
Trim(s, c) == TrimRight(TrimLeft(s, c), c)

\* strings.Split(s, sep) for a one-character separator: always at least one segment
RECURSIVE Split(_, _)
Split(s, sep) ==
    IF \A i \in 1..Len(s) : s[i] # sep THEN <<s>>
    ELSE LET k == CHOOSE i \in 1..Len(s) :
                     s[i] = sep /\ \A j \in 1..(i - 1) : s[j] # sep
         IN  <<SubSeq(s, 1, k - 1)>> \o Split(SubSeq(s, k + 1, Len(s)), sep)

RECURSIVE Concat(_)
Concat(ss) == IF ss = <<>> THEN <<>> ELSE Head(ss) \o Concat(Tail(ss))

\* the raw payloads the remote service can return: up to MaxLines lines, each
\* followed by a line break, the last one possibly unterminated
Payload(ls, terminated) ==
    Concat([i \in 1..Len(ls) |->
               ls[i] \o (IF i < Len(ls) \/ terminated THEN <<"\n">> ELSE <<>>)])

LineSeqs == UNION {[1..n -> RespLines] : n \in 0..MaxLines}

Responses == {Payload(ls, t) : ls \in LineSeqs, t \in BOOLEAN}

\* the bytes ioutil.ReadAll has when the connection fails in the first line
\* of the body
CutBodies == {Payload(ls, FALSE) : ls \in {q \in LineSeqs : Len(q) <= 1}}

\* a catalog: the NORADID column of the rows ParseSATCATCSV returns, the first
\* n of 100, 200, 300, ... (NORAD_CAT_ID is the key of the catalog, so the rows
\* differ); main indexes satcatRows[0], so a run that gets to the fetch has at
\* least one row
Catalogs == {[i \in 1..n |-> NoradID(i)] : n \in 1..MaxCat}

\* catalogs in which two rows spell the same number: ParseSATCATCSV keeps the
\* column as the string the file has
AliasCatalogs == {<<S100, S0100>>, <<S0100, S100>>, <<S100, S0100, S200>>}

\* ----------------------------------------------------------------- state
VARIABLES
    satcatRows,   \* main: the catalog, NORADID of each row
    capRows,      \* cap(satcatRows), as append left it
    batchSize,    \* flag -batch-size
    fetchTLEs,    \* flag -tle
    lastFetched,  \* main: the cursor
    pc,           \* main: "startup", "select", "stopped", "crashed", or in the
                  \* cycle: "posting" (in STPOST), "returning" (loops done)
    err,          \* what ended the process: "none" or the panic / log.Fatal cause
    files,        \* FetchTLEsForSATCAT: map from numeric id to the file it opened
    noradIDs,     \* FetchTLEsForSATCAT: the ids claimed in this cycle
    skipped,      \* the log: the NORAD IDs of the "Skipping that NORAD ID"
                  \* lines of the latest cycle
    resp,         \* the payload STPOST returned in this cycle
    bodyErr,      \* STPOST: ioutil.ReadAll returned an error with that payload
                  \* (the body was cut short); STPOST drops it
    requests,     \* every NORAD_CAT_ID list posted to the service so far
    disk,         \* the output directory: file name -> chunks appended
    timer,        \* ClockyWocky: "off", "sleeping", "sending"
    quit,         \* the quit channel (buffer of one) holds a signal
    cycles        \* cycles begun in this run

vars == <<satcatRows, capRows, batchSize, fetchTLEs, lastFetched, pc, err, files,
          noradIDs, skipped, resp, bodyErr, requests, disk, timer, quit, cycles>>

params == <<satcatRows, capRows, batchSize, fetchTLEs>>

EmptyMap == [x \in {} |-> x]

Range(f) == {f[x] : x \in DOMAIN f}

\* satcatRows[startRow : startRow+numToFetch] is in range up to the capacity
SliceInRange(low, high, capacity) == 0 <= low /\ low <= high /\ high <= capacity

\* the rows of the slice; between len and cap the backing array holds zero rows
Window(rows, low, high) ==
    [i \in 1..(high - low) |->
        IF low + i <= Len(rows) THEN rows[low + i] ELSE SEmpty]

\* the state the claim loop works on: the directory, noradIDQuery, noradIDs,
\* files, the log
ClaimStart(d) ==
    [disk |-> d, query |-> <<>>, ids |-> <<>>, files |-> EmptyMap,
     skipped |-> <<>>, err |-> "none"]

\* ClaimRow with O_EXCL left out: an existing file is opened and claimed again
ClaimRowNoExcl(st, name, openFails) ==
    IF st.err # "none" THEN st
    ELSE IF openFails /\ name \notin DOMAIN st.disk
    THEN [st EXCEPT !.err = "open"]
    ELSE LET claimed == [st EXCEPT !.disk = IF name \in DOMAIN @ THEN @
                                            ELSE (name :> <<>>) @@ @,
                                   !.query = @ \o name \o <<",">>,
                                   !.ids = Append(@, name)]
             n == Atoi(name)
         IN  IF n.err THEN [claimed EXCEPT !.err = "rowatoi"]
             ELSE [claimed EXCEPT !.files = (n.val :> name) @@ @]

\* ClaimRow with the separator appended for a skipped row too
ClaimRowCommaOnSkip(st, name, openFails) ==
    IF st.err # "none" THEN st
    ELSE IF name \in DOMAIN st.disk
    THEN [st EXCEPT !.skipped = Append(@, name), !.query = @ \o <<",">>]
    ELSE IF openFails
    THEN [st EXCEPT !.err = "open"]
    ELSE LET claimed == [st EXCEPT !.disk = (name :> <<>>) @@ @,
                                   !.query = @ \o name \o <<",">>,
                                   !.ids = Append(@, name)]
             n == Atoi(name)
         IN  IF n.err THEN [claimed EXCEPT !.err = "rowatoi"]
             ELSE [claimed EXCEPT !.files = (n.val :> name) @@ @]

\* ClaimRow that leaves an entry of the map alone when the number has one
ClaimRowKeepFirst(st, name, openFails) ==
    IF st.err # "none" THEN st
    ELSE IF name \in DOMAIN st.disk
    THEN [st EXCEPT !.skipped = Append(@, name)]
    ELSE IF openFails
    THEN [st EXCEPT !.err = "open"]
    ELSE LET claimed == [st EXCEPT !.disk = (name :> <<>>) @@ @,
                                   !.query = @ \o name \o <<",">>,
                                   !.ids = Append(@, name)]
             n == Atoi(name)
         IN  IF n.err THEN [claimed EXCEPT !.err = "rowatoi"]
             ELSE [claimed EXCEPT !.files = @ @@ (n.val :> name)]

\* one iteration of the claim loop for the row with NORADID name; openFails:
\* OpenFile fails for another reason than "exists"
ClaimRow(st, name, openFails) ==
    IF st.err # "none" THEN st
    ELSE IF name \in DOMAIN st.disk
    THEN [st EXCEPT !.skipped = Append(@, name)]
    ELSE IF openFails
    THEN [st EXCEPT !.err = "open"]
    ELSE LET claimed == [st EXCEPT !.disk = (name :> <<>>) @@ @,
                                   !.query = @ \o name \o <<",">>,
                                   !.ids = Append(@, name)]
             n == Atoi(name)
         IN  IF n.err THEN [claimed EXCEPT !.err = "rowatoi"]
             ELSE [claimed EXCEPT !.files = (n.val :> name) @@ @]

\* the claim loop over the window; failAt: the iteration whose OpenFile fails
\* (0: none)
RECURSIVE ClaimLoop(_, _, _, _)
ClaimLoop(st, window, i, failAt) ==
    IF i > Len(window) THEN st
    ELSE ClaimLoop(ClaimRow(st, window[i], i = failAt), window, i + 1, failAt)

QueryIsEmpty(q) == q = <<>>

\* DropLast that leaves the query as the claim loop built it
DropNothing(q) == q

\* noradIDQuery[:len(noradIDQuery)-1]
DropLast(q) == SubSeq(q, 1, Len(q) - 1)

\* SinkOf picking the file opened last in the claim loop, whatever the line says
SinkOfLastOpened(fs, n) == fs[CHOOSE k \in DOMAIN fs : \A j \in DOMAIN fs : j <= k]

\* f, ok := files[noradID], when ok
SinkOf(fs, n) == fs[n]

\* DemuxLine ending the process at a line that has no sink
DemuxLineUnmappedFatal(st, fs, line, writeFails) ==
    IF st.err # "none" THEN st
    ELSE IF Len(line) < 7 THEN [st EXCEPT !.err = "linebounds"]
    ELSE LET n == Atoi(Trim(SubSeq(line, 3, 7), " "))
         IN  IF n.err THEN [st EXCEPT !.err = "lineatoi"]
             ELSE IF n.val \in DOMAIN fs
             THEN IF writeFails THEN [st EXCEPT !.err = "write"]
                  ELSE [st EXCEPT !.disk[SinkOf(fs, n.val)] = Append(@, line)]
             ELSE [st EXCEPT !.err = "unmapped"]

\* DemuxLine writing the line break back after the line
DemuxLineAddNewline(st, fs, line, writeFails) ==
    IF st.err # "none" THEN st
    ELSE IF Len(line) < 7 THEN [st EXCEPT !.err = "linebounds"]
    ELSE LET n == Atoi(Trim(SubSeq(line, 3, 7), " "))
         IN  IF n.err THEN [st EXCEPT !.err = "lineatoi"]
             ELSE IF n.val \in DOMAIN fs
             THEN IF writeFails THEN [st EXCEPT !.err = "write"]
                  ELSE [st EXCEPT !.disk[SinkOf(fs, n.val)] = Append(@, line \o <<"\n">>)]
             ELSE st

\* one iteration of the demultiplexing loop; writeFails: WriteString fails
DemuxLine(st, fs, line, writeFails) ==
    IF st.err # "none" THEN st
    ELSE IF Len(line) < 7 THEN [st EXCEPT !.err = "linebounds"]
    ELSE LET n == Atoi(Trim(SubSeq(line, 3, 7), " "))
         IN  IF n.err THEN [st EXCEPT !.err = "lineatoi"]
             ELSE IF n.val \in DOMAIN fs
             THEN IF writeFails THEN [st EXCEPT !.err = "write"]
                  ELSE [st EXCEPT !.disk[SinkOf(fs, n.val)] = Append(@, line)]
             ELSE st

\* DemuxLoop running to i < len(lines) when the last segment is not empty
RECURSIVE DemuxLoopToEnd(_, _, _, _, _)
DemuxLoopToEnd(st, fs, lines, i, writeFails) ==
    IF i > Len(lines) \/ (i = Len(lines) /\ lines[i] = <<>>) THEN st
    ELSE DemuxLoopToEnd(DemuxLine(st, fs, lines[i], writeFails), fs, lines, i + 1,
                        writeFails)

\* the loop over all segments but the last; writeFails: the sinks cannot be
\* written in this cycle
RECURSIVE DemuxLoop(_, _, _, _, _)
DemuxLoop(st, fs, lines, i, writeFails) ==
    IF i > Len(lines) - 1 THEN st
    ELSE DemuxLoop(DemuxLine(st, fs, lines[i], writeFails), fs, lines, i + 1,
                   writeFails)

Demux(d, fs, payload, writeFails) ==
    DemuxLoop([disk |-> d, err |-> "none"], fs, Split(payload, "\n"), 1, writeFails)

\* AdvanceCursor as an assignment instead of an increment
AdvanceCursorAssign(cursor, size) == size

\* lastFetched += *batchSize
AdvanceCursor(cursor, size) == cursor + size

\* -------------------------------------------------------------------- init
Init ==
    /\ satcatRows \in Catalogs
    /\ capRows \in Len(satcatRows)..(Len(satcatRows) + MaxSlack)
    /\ batchSize \in 0..MaxBatch
    /\ fetchTLEs \in BOOLEAN
    /\ lastFetched = 0
    /\ pc = "startup"
    /\ err = "none"
    /\ files = EmptyMap
    /\ noradIDs = <<>>
    /\ skipped = <<>>
    /\ resp = <<>>
    /\ bodyErr = FALSE
    /\ requests = <<>>
    /\ disk = EmptyMap
    /\ timer = "off"
    /\ quit = FALSE
    /\ cycles = 0

\* ----------------------------------------------------------------- actions
\* FetchTLEsForSATCAT up to its call of STPOST, or to its early return or the
\* end of the process when it does not get there.  failAt: the claim whose
\* OpenFile fails (0: none); tm: what ClockyWocky does while the cycle runs
BeginCycle(failAt, tm) ==
    LET high == lastFetched + batchSize IN
    /\ cycles' = cycles + 1
    /\ IF ~SliceInRange(lastFetched, high, capRows)
       THEN /\ pc' = "crashed"
            /\ err' = "bounds"
            /\ timer' = "off"
            /\ skipped' = <<>>
            /\ UNCHANGED <<files, noradIDs, requests, disk>>
       ELSE LET st == ClaimLoop(ClaimStart(disk),
                                Window(satcatRows, lastFetched, high), 1, failAt)
            IN  /\ disk' = st.disk
                /\ files' = st.files
                /\ noradIDs' = st.ids
                /\ skipped' = st.skipped
                /\ IF st.err # "none"
                   THEN /\ pc' = "crashed"
                        /\ err' = st.err
                        /\ timer' = "off"
                        /\ UNCHANGED requests
                   ELSE IF QueryIsEmpty(st.query)
                   THEN /\ pc' = "returning"
                        /\ timer' = tm
                        /\ UNCHANGED <<err, requests>>
                   ELSE /\ pc' = "posting"
                        /\ requests' = Append(requests, DropLast(st.query))
                        /\ timer' = tm
                        /\ UNCHANGED err
    /\ UNCHANGED <<lastFetched, resp, bodyErr>>

\* Startup with go ClockyWocky outside the if *fetchTLEs block
StartupClockyOutsideIf ==
    /\ pc = "startup"
    /\ IF fetchTLEs
       THEN \E failAt \in 0..batchSize : BeginCycle(failAt, "off")
       ELSE /\ pc' = "select"
            /\ timer' = "sleeping"
            /\ UNCHANGED <<lastFetched, err, files, noradIDs, skipped, resp, bodyErr,
                           requests, disk, cycles>>
    /\ UNCHANGED <<params, quit>>

\* main up to the event loop: the startup cycle when -tle is given
Startup ==
    /\ pc = "startup"
    /\ IF fetchTLEs
       THEN \E failAt \in 0..batchSize : BeginCycle(failAt, "off")
       ELSE /\ pc' = "select"
            /\ UNCHANGED <<lastFetched, err, files, noradIDs, skipped, resp, bodyErr,
                           requests, disk, timer, cycles>>
    /\ UNCHANGED <<params, quit>>

\* TickCycle on a channel that keeps a further tick while one is received
TickCycleTickKept ==
    /\ pc = "select"
    /\ timer = "sending"
    /\ cycles < MaxCycles
    /\ \E failAt \in 0..batchSize : BeginCycle(failAt, "sending")
    /\ UNCHANGED <<params, quit>>

\* case <-triggerTLEFetch: the tick is received, ClockyWocky goes back to
\* sleep, and a cycle runs
TickCycle ==
    /\ pc = "select"
    /\ timer = "sending"
    /\ cycles < MaxCycles
    /\ \E failAt \in 0..batchSize : BeginCycle(failAt, "sleeping")
    /\ UNCHANGED <<params, quit>>

\* STPOST returns a payload and the demultiplexing loop runs over it
Respond ==
    /\ pc = "posting"
    /\ \E payload \in Responses, writeFails \in BOOLEAN :
          LET st == Demux(disk, files, payload, writeFails) IN
          /\ resp' = payload
          /\ bodyErr' = FALSE
          /\ disk' = st.disk
          /\ IF st.err # "none"
             THEN /\ pc' = "crashed"
                  /\ err' = st.err
                  /\ timer' = "off"
             ELSE /\ pc' = "returning"
                  /\ UNCHANGED <<err, timer>>
    /\ UNCHANGED <<params, lastFetched, files, noradIDs, skipped, requests, quit, cycles>>

\* the connection fails while the body is read: body, _ := ioutil.ReadAll
\* keeps the bytes read so far and drops the error, STPOST returns them, and
\* the demultiplexing loop runs over them
ReadFail ==
    /\ pc = "posting"
    /\ \E payload \in CutBodies :
          LET st == Demux(disk, files, payload, FALSE) IN
          /\ resp' = payload
          /\ bodyErr' = TRUE
          /\ disk' = st.disk
          /\ IF st.err # "none"
             THEN /\ pc' = "crashed"
                  /\ err' = st.err
                  /\ timer' = "off"
             ELSE /\ pc' = "returning"
                  /\ UNCHANGED <<err, timer>>
    /\ UNCHANGED <<params, lastFetched, files, noradIDs, skipped, requests, quit, cycles>>

\* http.PostForm fails and STPOST panics
TransportFail ==
    /\ pc = "posting"
    /\ pc' = "crashed"
    /\ err' = "transport"
    /\ timer' = "off"
    /\ UNCHANGED <<params, lastFetched, files, noradIDs, skipped, resp, bodyErr,
                   requests, disk, quit, cycles>>

\* FetchTLEsForSATCAT returns, its locals are gone; main advances the cursor
\* and, after the startup cycle, starts ClockyWocky
Return ==
    /\ pc = "returning"
    /\ pc' = "select"
    /\ lastFetched' = AdvanceCursor(lastFetched, batchSize)
    /\ timer' = IF timer = "off" THEN "sleeping" ELSE timer
    /\ files' = EmptyMap
    /\ noradIDs' = <<>>
    /\ resp' = <<>>
    /\ bodyErr' = FALSE
    /\ UNCHANGED <<params, err, skipped, requests, disk, quit, cycles>>

\* Quit taken wherever main is, the cycle in flight cut short
QuitAnytime ==
    /\ pc \in {"select", "posting", "returning"}
    /\ quit
    /\ pc' = "stopped"
    /\ quit' = FALSE
    /\ timer' = "off"
    /\ UNCHANGED <<params, lastFetched, err, files, noradIDs, skipped, resp, bodyErr,
                   requests, disk, cycles>>

\* case <-quit: main returns
Quit ==
    /\ pc = "select"
    /\ quit
    /\ pc' = "stopped"
    /\ quit' = FALSE
    /\ timer' = "off"
    /\ UNCHANGED <<params, lastFetched, err, files, noradIDs, skipped, resp, bodyErr,
                   requests, disk, cycles>>

\* an interrupt reaches the process; signal.Notify does not block, a signal
\* that finds the buffer full is dropped.  During a cycle it arrives while
\* main is in STPOST: the loops of the cycle read neither quit nor the timer
Interrupt ==
    /\ pc \in {"startup", "select", "posting"}
    /\ ~quit
    /\ quit' = TRUE
    /\ UNCHANGED <<params, lastFetched, pc, err, files, noradIDs, skipped,
                   resp, bodyErr, requests, disk, timer, cycles>>

\* ClockyWocky: time.Sleep returns and the goroutine blocks in c <- 1
TimerFire ==
    /\ pc \in {"select", "posting"}
    /\ timer = "sleeping"
    /\ timer' = "sending"
    /\ UNCHANGED <<params, lastFetched, pc, err, files, noradIDs, skipped,
                   resp, bodyErr, requests, disk, quit, cycles>>

\* Restart that clears the empty files out of the output directory
RestartDropsEmpty ==
    /\ pc \in {"stopped", "crashed"}
    /\ pc' = "startup"
    /\ err' = "none"
    /\ lastFetched' = 0
    /\ files' = EmptyMap
    /\ noradIDs' = <<>>
    /\ skipped' = <<>>
    /\ resp' = <<>>
    /\ bodyErr' = FALSE
    /\ timer' = "off"
    /\ quit' = FALSE
    /\ cycles' = 0
    /\ disk' = [name \in {x \in DOMAIN disk : disk[x] # <<>>} |-> disk[name]]
    /\ UNCHANGED <<params, requests>>

\* the program is started again on the same catalog and output directory
Restart ==
    /\ pc \in {"stopped", "crashed"}
    /\ pc' = "startup"
    /\ err' = "none"
    /\ lastFetched' = 0
    /\ files' = EmptyMap
    /\ noradIDs' = <<>>
    /\ skipped' = <<>>
    /\ resp' = <<>>
    /\ bodyErr' = FALSE
    /\ timer' = "off"
    /\ quit' = FALSE
    /\ cycles' = 0
    /\ UNCHANGED <<params, requests, disk>>

Next ==
    \/ Startup
    \/ TickCycle
    \/ Respond
    \/ ReadFail
    \/ TransportFail
    \/ Return
    \/ Quit
    \/ Interrupt
    \/ TimerFire
    \/ Restart

Spec == Init /\ [][Next]_vars

\* one run of the program on an output directory that starts empty
NextOneRun ==
    \/ Startup
    \/ TickCycle
    \/ Respond
    \/ ReadFail
    \/ TransportFail
    \/ Return
    \/ Quit
    \/ Interrupt
    \/ TimerFire

SpecOneRun == Init /\ [][NextOneRun]_vars

\* the program on a catalog with two spellings of one number
InitAlias ==
    /\ satcatRows \in AliasCatalogs
    /\ capRows \in Len(satcatRows)..(Len(satcatRows) + MaxSlack)
    /\ batchSize \in 0..MaxBatch
    /\ fetchTLEs \in BOOLEAN
    /\ lastFetched = 0
    /\ pc = "startup"
    /\ err = "none"
    /\ files = EmptyMap
    /\ noradIDs = <<>>
    /\ skipped = <<>>
    /\ resp = <<>>
    /\ bodyErr = FALSE
    /\ requests = <<>>
    /\ disk = EmptyMap
    /\ timer = "off"
    /\ quit = FALSE
    /\ cycles = 0

SpecAlias == InitAlias /\ [][Next]_vars

TypeOK ==
    /\ pc \in {"startup", "select", "posting", "returning", "stopped", "crashed"}
    /\ timer \in {"off", "sleeping", "sending"}
    /\ lastFetched \in Nat

\* ------------------------------------------------------- claim vocabulary
Elems(seq) == {seq[i] : i \in DOMAIN seq}

\* the identifiers of a posted NORAD_CAT_ID list
QueryIds(q) == Split(q, ",")

LastRequest(rs) == rs[Len(rs)]

\* a cycle is begun in this step (by Startup or by TickCycle)
CycleBegins == cycles' = cycles + 1

\* the segments the demultiplexing loop visits
ProcessedLines(payload) ==
    LET segs == Split(payload, "\n") IN SubSeq(segs, 1, Len(segs) - 1)

\* the identifier embedded in a line of at least seven characters
LineId(line) == Atoi(Trim(SubSeq(line, 3, 7), " "))

WellFormed(line) == Len(line) >= 7 /\ ~LineId(line).err

\* the line names an identifier that has a sink in fs
Mapped(fs, line) == WellFormed(line) /\ LineId(line).val \in DOMAIN fs

\* the lines, in order, whose identifier has the sink name
RoutedTo(fs, lines, name) ==
    SelectSeq(lines, LAMBDA l : Mapped(fs, l) /\ fs[LineId(l).val] = name)

Cat3 == <<S100, S200, S300>>

\* cycles that have returned in this run
Completed == IF pc \in {"posting", "returning", "crashed"} THEN cycles - 1 ELSE cycles

\* ------------------------------------------------------------------ claims
\* C1 (holds): a cycle gives no sink to, and leaves out of its query, every
\* identifier whose artifact exists when the cycle begins; over all cycles and
\* restarts an identifier is in at most one posted query, once, and no two
\* sinks of a cycle are on the same artifact.
OnceInQueries ==
    \A i, j \in DOMAIN requests :
        \A a \in DOMAIN QueryIds(requests[i]), b \in DOMAIN QueryIds(requests[j]) :
            QueryIds(requests[i])[a] = QueryIds(requests[j])[b] => i = j /\ a = b

OneSinkEach == \A m, n \in DOMAIN files : files[m] = files[n] => m = n

C1_Dedup ==
    [][/\ CycleBegins =>
            \A name \in DOMAIN disk :
                /\ name \notin Range(files')
                /\ name \notin Elems(noradIDs')
                /\ requests' # requests =>
                       name \notin Elems(QueryIds(LastRequest(requests')))
       /\ requests' # requests => OnceInQueries'
       /\ files' # files => OneSinkEach']_vars

\* a cycle that skipped an existing artifact and posted a query for the rest
C1_Witness ==
    /\ pc = "posting"
    /\ skipped # <<>>
    /\ noradIDs # <<>>
    /\ \A i \in DOMAIN skipped : skipped[i] \notin Elems(QueryIds(LastRequest(requests)))

\* C2 (holds): every chunk in an artifact is a line whose embedded identifier
\* (characters 2..6, trimmed, as an integer) is the number of that artifact's
\* name; no line is in the artifact of another identifier.
C2_NoCrossWrite ==
    \A name \in DOMAIN disk :
        \A i \in DOMAIN disk[name] :
            /\ WellFormed(disk[name][i])
            /\ ~Atoi(name).err
            /\ LineId(disk[name][i]).val = Atoi(name).val

\* a response listing 200 before 100, demultiplexed into the two artifacts
C2_Witness ==
    /\ pc = "returning"
    /\ resp = Payload(<<L1of200, L1of100>>, TRUE)
    /\ noradIDs = <<S100, S200>>
    /\ disk[S100] = <<L1of100>>
    /\ disk[S200] = <<L1of200>>

\* C3 (holds): a request is in flight only for a cycle that claimed an
\* identifier, and every posted query lists identifiers, none of them empty.
C3_NoEmptyRequest ==
    /\ pc = "posting" => noradIDs # <<>>
    /\ \A i \in DOMAIN requests :
          /\ requests[i] # <<>>
          /\ \A j \in DOMAIN QueryIds(requests[i]) : QueryIds(requests[i])[j] # <<>>

\* a cycle whose whole window was skipped returns without a response
C3_Witness ==
    /\ pc = "returning"
    /\ batchSize > 0
    /\ Len(skipped) = batchSize
    /\ noradIDs = <<>>
    /\ resp = <<>>

\* C4 (holds): when a response of well-formed lines has a line with no sink,
\* the cycle does not end the process, and every artifact gets exactly the
\* lines routed to it, in order, the unmapped lines being written nowhere.
C4_UnmappedDropped ==
    [][(pc = "posting" /\ pc' # "posting" /\ err' \notin {"transport", "write"})
       => LET lines == ProcessedLines(resp') IN
          (/\ \A i \in DOMAIN lines : WellFormed(lines[i])
           /\ \E i \in DOMAIN lines : ~Mapped(files, lines[i]))
          => /\ pc' = "returning"
             /\ DOMAIN disk' = DOMAIN disk
             /\ \A name \in DOMAIN disk :
                   disk'[name] = disk[name] \o RoutedTo(files, lines, name)]_vars

\* a line of 200 with no sink came first and the line of 100 after it was
\* written
C4_Witness ==
    /\ pc = "returning"
    /\ resp = Payload(<<L1of200, L1of100>>, TRUE)
    /\ DOMAIN files = {100}
    /\ disk[S100] = <<L1of100>>

\* C5 (fails): in a run that starts on an empty directory, once
\* ceil(C/B) cycles are over every catalog identifier has its artifact, and
\* after a cycle each claimed artifact has as many lines as the response has
\* lines with its identifier.
Ceil(c, b) == (c + b - 1) \div b

RecordLines(payload) ==
    LET segs == Split(payload, "\n")
    IN  IF segs[Len(segs)] = <<>> THEN SubSeq(segs, 1, Len(segs) - 1) ELSE segs

C5_Coverage ==
    /\ (/\ fetchTLEs
        /\ batchSize >= 1
        /\ cycles >= Ceil(Len(satcatRows), batchSize)
        /\ pc \in {"select", "stopped", "crashed"}
        /\ err \in {"none", "bounds", "rowatoi"})
       => \A i \in DOMAIN satcatRows : satcatRows[i] \in DOMAIN disk
    /\ pc = "returning"
       => \A n \in DOMAIN files :
             Len(disk[files[n]]) =
                 Cardinality({i \in DOMAIN RecordLines(resp) :
                                 /\ WellFormed(RecordLines(resp)[i])
                                 /\ LineId(RecordLines(resp)[i]).val = n})

\* C6 (fails): no cycle slices the catalog out of range, and the rows a cycle
\* claims or skips are the catalog rows from the cursor to
\* min(cursor + batchSize, catalog length).
C6_WindowClamped ==
    /\ err # "bounds"
    /\ DOMAIN disk \subseteq Elems(satcatRows)
    /\ pc \in {"posting", "returning"}
       => Elems(noradIDs) \cup Elems(skipped) =
              {satcatRows[i] : i \in {k \in DOMAIN satcatRows :
                                         /\ k > lastFetched
                                         /\ k <= lastFetched + batchSize}}

\* C7 (fails): a tick-triggered cycle that begins with the cursor at or past
\* the end of the catalog claims nothing, posts nothing and returns to the
\* event loop.
C7_NoopPastEnd ==
    [][(pc = "select" /\ lastFetched >= Len(satcatRows) /\ CycleBegins)
       => /\ pc' = "returning"
          /\ noradIDs' = <<>>
          /\ requests' = requests
          /\ disk' = disk]_vars

\* C8 as stated (fails): catalog [100, 200, 300], batch size 2, artifacts of
\* 100 and 200 present at process start: the first cycle claims exactly 300
\* and posts the query "300".
C8_Original ==
    [][(/\ pc = "startup"
        /\ CycleBegins
        /\ satcatRows = Cat3
        /\ batchSize = 2
        /\ DOMAIN disk = {S100, S200})
       => /\ noradIDs' = <<S300>>
          /\ pc' = "posting"
          /\ requests' = Append(requests, S300)]_vars

\* C8 (amended, holds): in that scenario the first cycle skips 100 and 200,
\* claims nothing (300 is not in its window) and posts no query.
C8_FirstCycleSkipsAll ==
    [][(/\ pc = "startup"
        /\ CycleBegins
        /\ satcatRows = Cat3
        /\ batchSize = 2
        /\ DOMAIN disk = {S100, S200})
       => /\ noradIDs' = <<>>
          /\ skipped' = <<S100, S200>>
          /\ pc' = "returning"
          /\ requests' = requests
          /\ disk' = disk]_vars

\* the first cycle of a restarted run on that directory has skipped both
C8_Witness ==
    /\ pc = "returning"
    /\ cycles = 1
    /\ satcatRows = Cat3
    /\ batchSize = 2
    /\ DOMAIN disk = {S100, S200}
    /\ skipped = <<S100, S200>>
    /\ noradIDs = <<>>

\* C9 (holds): the cursor is batchSize times the number of cycles that have
\* returned in this run, whatever they claimed.
C9_CursorProgression == lastFetched = batchSize * Completed

\* the second cycle of a run skipped its whole window, posted nothing and has
\* returned: the cursor has moved by the batch size again
C9_Witness ==
    /\ pc = "select"
    /\ cycles = 2
    /\ batchSize >= 1
    /\ Len(skipped) = batchSize
    /\ lastFetched = 2 * batchSize

\* C10 (fails): with an interrupt delivered and main waiting in the event
\* loop, no cycle is begun.
C10_NoCycleAfterInterrupt ==
    [][(quit /\ pc = "select") => ~CycleBegins]_vars
\* C11 (holds): an interrupt pending while a cycle is in flight changes nothing
\* of the cycle: the response is demultiplexed in full (every write of the
\* cycle is made), the cycle returns through the cursor advance, and the
\* process stops on the signal only from the event loop, with no cycle in
\* flight and the cursor advanced for every cycle begun.
C11_NoMidCycleCancel ==
    [][/\ (quit /\ pc = "posting" /\ pc' = "returning")
              => disk' = Demux(disk, files, resp', FALSE).disk
       /\ (quit /\ pc = "returning")
              => /\ pc' = "select"
                 /\ lastFetched' = lastFetched + batchSize
                 /\ disk' = disk
       /\ (quit /\ pc \in {"posting", "returning"}) => quit'
       /\ pc' = "stopped"
              => /\ pc \in {"select", "stopped"}
                 /\ files' = EmptyMap
                 /\ lastFetched' = batchSize * cycles']_vars

\* the interrupt is pending, the cycle has posted its query and written the
\* lines of the response to its sink
C11_Witness ==
    /\ pc = "returning"
    /\ quit
    /\ \E n \in DOMAIN files : disk[files[n]] # <<>>

\* C12 (holds): with -tle the step out of startup begins the one startup
\* cycle, with the timer not yet started; the timer is started when that
\* cycle has returned; every other cycle is begun by the receipt of a tick, and
\* every received tick begins a cycle.  Without -tle the timer is never
\* started, no cycle is begun, nothing is posted or written, and main waits in
\* the event loop until the signal stops it.
C12_CycleTriggering ==
    [][/\ CycleBegins
              => /\ fetchTLEs
                 /\ \/ pc = "startup" /\ cycles = 0 /\ timer = "off"
                    \/ pc = "select" /\ timer = "sending" /\ timer' # "sending"
       /\ (fetchTLEs /\ pc = "startup" /\ pc' # "startup") => CycleBegins
       /\ (timer = "sending" /\ timer' = "sleeping") => CycleBegins
       /\ (timer = "off" /\ timer' # "off") => pc = "returning" /\ cycles = 1
       /\ ~fetchTLEs
              => /\ cycles' = 0
                 /\ timer' = "off"
                 /\ requests' = <<>>
                 /\ disk' = EmptyMap
                 /\ pc = "select" => \/ pc' = "select"
                                     \/ quit /\ pc' = "stopped"]_vars

\* the cycle begun by the first tick, after the startup cycle, is in flight
C12_Witness ==
    /\ fetchTLEs
    /\ cycles = 2
    /\ pc = "posting"
    /\ timer = "sleeping"

\* the first line of lines the demultiplexing loop cannot parse (0: none)
FirstUnparsed(lines) ==
    IF \A i \in DOMAIN lines : WellFormed(lines[i]) THEN 0
    ELSE CHOOSE i \in DOMAIN lines :
             /\ ~WellFormed(lines[i])
             /\ \A j \in 1..(i - 1) : WellFormed(lines[j])

\* C13 (fails): a claim failure other than a conflict, a transport failure
\* (before or while the response is read), a write failure or a line with an
\* unparseable identifier field ends the process; the step that ends it leaves
\* the cursor alone and writes no line after the failing one, and nothing
\* further is posted or written in that run.
C13_FailStop ==
    [][/\ (pc = "posting" /\ bodyErr') => pc' = "crashed"
       /\ (pc = "posting" /\ pc' # "posting" /\ err' # "transport"
              /\ FirstUnparsed(ProcessedLines(resp')) # 0)
              => pc' = "crashed"
       /\ (pc # "crashed" /\ pc' = "crashed")
              => /\ err' # "none"
                 /\ lastFetched' = lastFetched
                 /\ requests' = requests
                 /\ err' \in {"transport", "write"} => disk' = disk
                 /\ err' \in {"lineatoi", "linebounds"}
                        => LET lines == ProcessedLines(resp')
                               before == SubSeq(lines, 1, FirstUnparsed(lines) - 1)
                           IN  \A name \in DOMAIN disk :
                                   disk'[name] = disk[name] \o RoutedTo(files, before, name)
       /\ pc = "crashed"
              => /\ pc' \in {"crashed", "startup"}
                 /\ requests' = requests
                 /\ disk' = disk
                 /\ pc' = "crashed" => lastFetched' = lastFetched /\ cycles' = cycles]_vars

\* the identifiers joined by single commas
RECURSIVE JoinComma(_)
JoinComma(ids) ==
    IF ids = <<>> THEN <<>>
    ELSE IF Len(ids) = 1 THEN ids[1]
    ELSE ids[1] \o <<",">> \o JoinComma(Tail(ids))

\* C14 (holds): the query in flight is the identifiers this cycle claimed,
\* each once, joined by single commas with none leading or trailing, in the
\* order of their rows in the window; it names no skipped identifier, and
\* every row of the window was either claimed or skipped.
C14_QueryComposition ==
    pc = "posting"
    => LET window == Window(satcatRows, lastFetched, lastFetched + batchSize)
           q == LastRequest(requests)
       IN  /\ noradIDs # <<>>
           /\ q = JoinComma(noradIDs)
           /\ QueryIds(q) = noradIDs
           /\ q[1] # "," /\ q[Len(q)] # ","
           /\ \A i \in 1..(Len(q) - 1) : ~(q[i] = "," /\ q[i + 1] = ",")
           /\ \A i, j \in DOMAIN noradIDs : noradIDs[i] = noradIDs[j] => i = j
           /\ noradIDs = SelectSeq(window, LAMBDA r : r \in Elems(noradIDs))
           /\ \A i \in DOMAIN skipped : skipped[i] \notin Elems(QueryIds(q))
           /\ Elems(window) = Elems(noradIDs) \cup Elems(skipped)

\* both rows of a window were claimed and posted as "100,200"
C14_Witness ==
    /\ pc = "posting"
    /\ noradIDs = <<S100, S200>>
    /\ LastRequest(requests) = S100 \o <<",">> \o S200

\* the bytes of a file: its chunks one after the other
Content(chunks) == Concat(chunks)

\* C15 (holds): when the demultiplexing loop is done, the bytes of the artifact
\* of each identifier claimed in this cycle (created empty by the claim) are
\* the lines of the response before the trailing segment that carry its
\* number, in response order and back to back: no line break, nothing else.
C15_ArtifactContent ==
    pc = "returning"
    => \A n \in DOMAIN files :
          /\ Content(disk[files[n]]) =
                 Concat(SelectSeq(ProcessedLines(resp),
                                  LAMBDA l : WellFormed(l) /\ LineId(l).val = n))
          /\ "\n" \notin Elems(Content(disk[files[n]]))

\* two lines of 100 were appended to its artifact
C15_Witness ==
    /\ pc = "returning"
    /\ resp = Payload(<<L1of100, L2of100>>, TRUE)
    /\ 100 \in DOMAIN files
    /\ Content(disk[S100]) = L1of100 \o L2of100

\* the process was ended by the remote call or by the demultiplexing loop
CrashedAfterClaim ==
    pc = "crashed" /\ err \in {"transport", "lineatoi", "linebounds", "write"}

\* C16 (holds): when a query is posted the artifact of every claimed identifier
\* exists and is empty; when the process is ended after the claim step the
\* claimed identifiers are those of the last query and their artifacts exist;
\* no step, a restart included, removes an artifact; and a query posted later
\* names no identifier that has an artifact or was in a query before.
C16_CrashResidue ==
    [][/\ (pc # "posting" /\ pc' = "posting")
              => \A i \in DOMAIN noradIDs' :
                     /\ noradIDs'[i] \in DOMAIN disk'
                     /\ disk'[noradIDs'[i]] = <<>>
       /\ CrashedAfterClaim
              => /\ noradIDs = QueryIds(LastRequest(requests))
                 /\ \A i \in DOMAIN noradIDs : noradIDs[i] \in DOMAIN disk
       /\ DOMAIN disk \subseteq DOMAIN disk'
       /\ requests' # requests
              => \A id \in Elems(QueryIds(LastRequest(requests'))) :
                     /\ id \notin DOMAIN disk
                     /\ \A k \in DOMAIN requests : id \notin Elems(QueryIds(requests[k]))]_vars

\* the first cycle of a later run has skipped identifiers that an earlier run
\* requested and whose artifacts are still empty
C16_Witness ==
    /\ pc = "returning"
    /\ cycles = 1
    /\ noradIDs = <<>>
    /\ skipped # <<>>
    /\ requests # <<>>
    /\ \A i \in DOMAIN skipped :
          /\ disk[skipped[i]] = <<>>
          /\ skipped[i] \in Elems(QueryIds(LastRequest(requests)))

\* the payload ends with a line break
Terminated(payload) == payload # <<>> /\ payload[Len(payload)] = "\n"

\* the segments of the split that carry the number n
Carrying(segs, n) == {i \in DOMAIN segs : WellFormed(segs[i]) /\ LineId(segs[i]).val = n}

\* C17 (holds): when the demultiplexing loop is done, every sink holds one
\* chunk for each segment before the last that carries its number, and none
\* for the last segment: a payload that ends with a line break has an empty
\* last segment, so all its record lines were processed; one that does not
\* has its final record line as last segment, written nowhere.
C17_TrailingDiscard ==
    (pc = "returning" /\ resp # <<>>)
    => LET segs == Split(resp, "\n")
           last == segs[Len(segs)]
       IN  /\ \A n \in DOMAIN files :
                  Len(disk[files[n]]) = Cardinality(Carrying(segs, n) \ {Len(segs)})
           /\ Terminated(resp)
                  => last = <<>> /\ RecordLines(resp) = ProcessedLines(resp)
           /\ ~Terminated(resp)
                  => /\ RecordLines(resp) = Append(ProcessedLines(resp), last)
                     /\ \A n \in DOMAIN files :
                            Len(segs) \in Carrying(segs, n)
                            => Len(disk[files[n]]) = Cardinality(Carrying(segs, n)) - 1

\* the response was two lines of 100, the second without its line break: the
\* artifact of 100 has the first line only
C17_Witness ==
    /\ pc = "returning"
    /\ resp = Payload(<<L1of100, L2of100>>, FALSE)
    /\ 100 \in DOMAIN files
    /\ disk[S100] = <<L1of100>>

\* the number a claimed identifier string stands for
NumberOf(name) == Atoi(name).val

\* the claims of this cycle that stand for the number n, by position
ClaimsOf(n) == {i \in DOMAIN noradIDs : NumberOf(noradIDs[i]) = n}

DistinctNumbers ==
    \A i, j \in DOMAIN noradIDs :
        NumberOf(noradIDs[i]) = NumberOf(noradIDs[j]) => i = j

\* C18 (holds): during a cycle every claimed string has its artifact, the sink
\* map has one entry per number claimed, the entry of a number being the
\* artifact of the last claim that stands for it; every claimed artifact has
\* an entry exactly when the claimed strings stand for different numbers; and
\* when the response is demultiplexed the lines of a number are all in the
\* artifact of its entry, the artifact of an earlier spelling staying empty.
C18_SinkKeys ==
    pc \in {"posting", "returning"}
    => /\ \A i \in DOMAIN noradIDs : noradIDs[i] \in DOMAIN disk
       /\ DOMAIN files = {NumberOf(noradIDs[i]) : i \in DOMAIN noradIDs}
       /\ \A n \in DOMAIN files :
              \E i \in ClaimsOf(n) :
                  /\ files[n] = noradIDs[i]
                  /\ \A j \in ClaimsOf(n) : j <= i
       /\ DistinctNumbers <=> Range(files) = Elems(noradIDs)
       /\ pc = "returning"
              => /\ \A i \in DOMAIN noradIDs :
                        noradIDs[i] \notin Range(files) => disk[noradIDs[i]] = <<>>
                 /\ \A n \in DOMAIN files :
                        disk[files[n]] =
                            SelectSeq(ProcessedLines(resp),
                                      LAMBDA l : WellFormed(l) /\ LineId(l).val = n)

\* "100" and "0100" were claimed in one cycle: one entry, for "0100", which
\* got the line of 100 while the artifact of "100" stayed empty
C18_Witness ==
    /\ pc = "returning"
    /\ noradIDs = <<S100, S0100>>
    /\ DOMAIN files = {100}
    /\ files[100] = S0100
    /\ disk[S0100] = <<L1of100>>
    /\ disk[S100] = <<>>

\* a cycle is in flight
InFlight == pc \in {"posting", "returning"}

\* C19 (holds): a tick becomes pending only by the timer's own step out of its
\* sleep, while main does not move; it stays pending until main receives it
\* or the process ends; the receipt begins a cycle and leaves no tick pending,
\* the timer starting its next sleep at that moment, so a tick that fell
\* due during a cycle is followed by one cycle without waiting and no more;
\* and no cycle is begun while one is in flight.
C19_NoTickBacklog ==
    [][/\ (timer # "sending" /\ timer' = "sending")
              => /\ timer = "sleeping"
                 /\ UNCHANGED <<pc, cycles, lastFetched, disk, requests>>
       /\ (timer = "sending" /\ timer' # "sending")
              => \/ pc = "select" /\ CycleBegins /\ timer' \in {"sleeping", "off"}
                 \/ pc' \in {"stopped", "crashed"} /\ timer' = "off"
       /\ (pc = "select" /\ CycleBegins) => timer = "sending" /\ timer' # "sending"
       /\ InFlight => cycles' = cycles
       /\ CycleBegins => ~InFlight]_vars

\* the timer fell due while the cycle begun by the first tick is in the remote
\* call: one tick is pending
C19_Witness ==
    /\ pc = "posting"
    /\ cycles = 2
    /\ timer = "sending"

====
